---- MODULE Spec2Model ----
(***************************************************************************)
(* Action-orchestration engine of regoose (day-12-regoose):                *)
(*   - ActionOrchestrator.execute_plan / _execute_action                   *)
(*   - CodeImprovementScenario.execute / execute_with_iterations           *)
(* and the dependency-graph strategy of the multi-agent orchestrator:      *)
(*   - AgentOrchestrator._execute_graph / _topological_sort                *)
(* Strings that are formatted, lower-cased or searched are sequences of    *)
(* one-character strings; dictionary keys are plain strings.               *)
(***************************************************************************)
EXTENDS Integers, Sequences, FiniteSets, TLC

VARIABLES
    actions,        \* ActionOrchestrator.actions: name -> get_dependencies()
    plan,           \* ExecutionPlan.steps of the running execute_plan
    step_index,     \* enumerate index i + 1 of the running step
    context,        \* ActionContext of the running execute_plan (optional)
    result,         \* last ActionResult returned by _execute_action (optional)
    plan_pc,        \* position inside execute_plan
    plan_error,     \* message of the RuntimeError raised by execute_plan (optional)
    plan_initial_data,   \* the caller's dict given to execute_plan, as it is now
    invoked,        \* steps whose action.execute was awaited, in order, and how each ended
    input_data,         \* the caller's dict given to execute_with_iterations
    goal,               \* local `goal`
    max_iterations,     \* local `max_iterations`
    iteration,          \* loop variable
    iteration_input,    \* dict given to the running execute pass, as given
    iteration_input_object, \* which dict object `iteration_input` is bound to
    iteration_results,  \* list of per-iteration records
    current_context,    \* context of the last successful pass (optional)
    convergence_score,  \* local `convergence_score`
    previous_changes,   \* local set `previous_changes`
    pass_changes,       \* change signatures of each finished pass's context
    scenario_result,    \* value returned by execute_with_iterations (optional)
    scen_pc,            \* position inside execute_with_iterations
    pass_result,        \* local `result`: ScenarioResult of the last execute pass (optional)
    score_call,         \* one call of _calculate_convergence_score: arguments, result
    critical_call,      \* one call of _is_critical_error: argument, result
    essential_call,     \* one call of _extract_essential_context: argument, result
    graph_agents,       \* AgentOrchestrator.agents: the registered agent ids
    graph_plan,         \* ExecutionPlan of the running _execute_graph: agents, dependencies
    graph_input,        \* `input_data` of _execute_graph
    execution_order,    \* local `execution_order`
    order_index,        \* position of the loop in execution_order
    graph_results,      \* local `results`: agent id -> what its execute returned
    completed,          \* local `completed`
    executions,         \* agent.execute calls awaited so far: agent and input, in order
    graph_error,        \* the exception that left _execute_graph (optional)
    graph_pc            \* position inside _execute_graph

orch_vars ==
    <<actions, plan, step_index, context, result, plan_pc, plan_error, plan_initial_data, invoked>>

loop_vars ==
    <<goal, max_iterations, iteration, iteration_input, iteration_input_object,
      iteration_results, current_context, convergence_score, previous_changes,
      pass_changes, scenario_result, scen_pc, pass_result>>

scen_vars ==
    <<input_data, loop_vars>>

pure_vars ==
    <<score_call, critical_call, essential_call>>

graph_vars ==
    <<graph_agents, graph_plan, graph_input, execution_order, order_index, graph_results,
      completed, executions, graph_error, graph_pc>>

vars ==
    <<orch_vars, scen_vars, pure_vars, graph_vars>>

----------------------------------------------------------------------------
(* Bounds *)

MaxPlanLen ==
    3

MaxIterations ==
    4

----------------------------------------------------------------------------
(* String literals of the source, as character sequences *)

analyze ==
    <<"a", "n", "a", "l", "y", "z", "e">>
plan_name ==
    <<"p", "l", "a", "n">>
implement ==
    <<"i", "m", "p", "l", "e", "m", "e", "n", "t">>
analyze_codebase ==
    <<"a", "n", "a", "l", "y", "z", "e", "_", "c", "o", "d", "e", "b", "a", "s", "e">>
plan_improvements ==
    <<"p", "l", "a", "n", "_", "i", "m", "p", "r", "o", "v", "e", "m", "e", "n", "t", "s">>
implement_changes ==
    <<"i", "m", "p", "l", "e", "m", "e", "n", "t", "_", "c", "h", "a", "n", "g", "e", "s">>
validate_changes ==
    <<"v", "a", "l", "i", "d", "a", "t", "e", "_", "c", "h", "a", "n", "g", "e", "s">>
generate_improvement_report ==
    <<"g", "e", "n", "e", "r", "a", "t", "e", "_", "i", "m", "p", "r", "o", "v", "e", "m", "e", "n", "t", "_", "r", "e", "p", "o", "r", "t">>
analyze_code ==
    <<"a", "n", "a", "l", "y", "z", "e", "_", "c", "o", "d", "e">>
generate_tests ==
    <<"g", "e", "n", "e", "r", "a", "t", "e", "_", "t", "e", "s", "t", "s">>
run_tests ==
    <<"r", "u", "n", "_", "t", "e", "s", "t", "s">>
generate_report ==
    <<"g", "e", "n", "e", "r", "a", "t", "e", "_", "r", "e", "p", "o", "r", "t">>
github_read_pr ==
    <<"g", "i", "t", "h", "u", "b", "_", "r", "e", "a", "d", "_", "p", "r">>
github_analyze_pr ==
    <<"g", "i", "t", "h", "u", "b", "_", "a", "n", "a", "l", "y", "z", "e", "_", "p", "r">>
github_publish_review ==
    <<"g", "i", "t", "h", "u", "b", "_", "p", "u", "b", "l", "i", "s", "h", "_", "r", "e", "v", "i", "e", "w">>
mcp_pr_review ==
    <<"m", "c", "p", "_", "p", "r", "_", "r", "e", "v", "i", "e", "w">>
fileA ==
    <<"f", "i", "l", "e", "A">>
fileB ==
    <<"f", "i", "l", "e", "B">>
edit ==
    <<"e", "d", "i", "t">>
StrColon ==
    <<":">>
MsgActionQuote ==
    <<"A", "c", "t", "i", "o", "n", " ", "'">>
MsgQuoteFailed ==
    <<"'", " ", "f", "a", "i", "l", "e", "d", ":", " ">>
MsgUnknownAction ==
    <<"U", "n", "k", "n", "o", "w", "n", " ", "a", "c", "t", "i", "o", "n", ":", " ">>
MsgMissingDependency ==
    <<"M", "i", "s", "s", "i", "n", "g", " ", "d", "e", "p", "e", "n", "d", "e", "n", "c", "y", ":", " ">>
MsgActionExecutionError ==
    <<"A", "c", "t", "i", "o", "n", " ", "e", "x", "e", "c", "u", "t", "i", "o", "n", " ", "e", "r", "r", "o", "r", ":", " ">>
MsgScenarioFailed ==
    <<"C", "o", "d", "e", " ", "i", "m", "p", "r", "o", "v", "e", "m", "e", "n", "t", " ", "s", "c", "e", "n", "a", "r", "i", "o", " ", "f", "a", "i", "l", "e", "d", ":", " ">>
MsgIterativeFailed ==
    <<"I", "t", "e", "r", "a", "t", "i", "v", "e", " ", "i", "m", "p", "r", "o", "v", "e", "m", "e", "n", "t", " ", "f", "a", "i", "l", "e", "d", ":", " ">>
MsgPermissionDenied ==
    <<"p", "e", "r", "m", "i", "s", "s", "i", "o", "n", " ", "d", "e", "n", "i", "e", "d", " ", "w", "r", "i", "t", "i", "n", "g", " ", "f", "i", "l", "e">>
MsgNetworkHiccup ==
    <<"t", "e", "m", "p", "o", "r", "a", "r", "y", " ", "n", "e", "t", "w", "o", "r", "k", " ", "h", "i", "c", "c", "u", "p">>
MsgTimeout ==
    <<"T", "o", "o", "l", " ", "t", "i", "m", "e", "d", " ", "o", "u", "t">>
MsgDivisionByZero ==
    <<"d", "i", "v", "i", "s", "i", "o", "n", " ", "b", "y", " ", "z", "e", "r", "o">>
KwAuthentication ==
    <<"a", "u", "t", "h", "e", "n", "t", "i", "c", "a", "t", "i", "o", "n">>
KwAuthorization ==
    <<"a", "u", "t", "h", "o", "r", "i", "z", "a", "t", "i", "o", "n">>
KwPermission ==
    <<"p", "e", "r", "m", "i", "s", "s", "i", "o", "n">>
KwSecurity ==
    <<"s", "e", "c", "u", "r", "i", "t", "y">>
KwFatal ==
    <<"f", "a", "t", "a", "l">>
StrUnknown ==
    <<"u", "n", "k", "n", "o", "w", "n">>

----------------------------------------------------------------------------
(* Python value helpers *)

\* Optional values: None is the empty sequence, a present value x is <<x>>.
None ==
    <<>>

Some(x) ==
    <<x>>

\* Python `needle in haystack` on strings (both evaluated once).
Contains(haystack, needle) ==
    \E h \in {haystack}, n \in {needle} :
        \E k \in 0..(Len(h) - Len(n)) : SubSeq(h, k + 1, k + Len(n)) = n

\* f"{value}" of an Optional[str].
Format(opt) ==
    IF opt = None THEN <<"N", "o", "n", "e">> ELSE opt[1]

\* Elements of a list.
Range(seq) ==
    {seq[k] : k \in DOMAIN seq}

\* The empty dict.
EmptyDict ==
    <<>>

\* dict.update: keys of u overwrite keys of d.
DictUpdate(d, u) ==
    [k \in (DOMAIN d) \cup (DOMAIN u) |-> IF k \in DOMAIN u THEN u[k] ELSE d[k]]

\* dict.__setitem__
DictSet(d, key, value) ==
    [k \in (DOMAIN d) \cup {key} |-> IF k = key THEN value ELSE d[k]]

----------------------------------------------------------------------------
(* actions/base.py *)

ActionResult_success_result(data, artifacts) ==
    [success |-> TRUE, data |-> data, artifacts |-> artifacts, error |-> None]

ActionResult_error_result(error, data) ==
    [success |-> FALSE, data |-> data, artifacts |-> EmptyDict, error |-> Some(error)]

\* ActionContext.__init__: `initial_data or {}`, no artifacts, no history.
ActionContext(initial_data) ==
    [data |-> initial_data, artifacts |-> EmptyDict, history |-> <<>>]

ActionContext_set(ctx, key, value) ==
    [ctx EXCEPT !.data = DictSet(ctx.data, key, value)]

\* A merge that keeps the value a key already has.
ActionContext_update_keep_existing(ctx, data) ==
    [ctx EXCEPT !.data = DictUpdate(data, ctx.data)]

ActionContext_update(ctx, data) ==
    [ctx EXCEPT !.data = DictUpdate(ctx.data, data)]

ActionContext_add_artifacts(ctx, artifacts) ==
    [ctx EXCEPT !.artifacts = DictUpdate(ctx.artifacts, artifacts)]

ActionContext_add_to_history(ctx, action_name, res) ==
    [ctx EXCEPT !.history = Append(ctx.history,
        [action |-> action_name, success |-> res.success,
         error |-> res.error, data_keys |-> DOMAIN res.data])]

----------------------------------------------------------------------------
(* scenarios/base.py: ScenarioResult *)

\* success_result: `artifacts or context.artifacts`.
ScenarioResult_success_result(ctx, artifacts) ==
    [success |-> TRUE, context |-> ctx,
     artifacts |-> IF artifacts = EmptyDict THEN ctx.artifacts ELSE artifacts,
     error |-> None]

\* error_result: `context or ActionContext()`.
ScenarioResult_error_result(error) ==
    [success |-> FALSE, context |-> ActionContext(EmptyDict),
     artifacts |-> EmptyDict, error |-> Some(error)]

----------------------------------------------------------------------------
(* scenarios/code_improvement.py: CodeImprovementScenario *)

\* dict.get(key, default)
DictGet(d, key, default) ==
    IF key \in DOMAIN d THEN d[key] ELSE default

\* The plan built by execute.
ScenarioPlan ==
    <<analyze_codebase, plan_improvements, implement_changes, validate_changes,
      generate_improvement_report>>

\* Scores are exact fractions num/den; comparisons cross-multiply.
ScoreZero ==
    [num |-> 0, den |-> 1]

ScoreOne ==
    [num |-> 1, den |-> 1]

ScoreEquals(a, b) ==
    a.num * b.den = b.num * a.den

\* score > pct/100 and score < pct/100
ScoreAbovePct(score, pct) ==
    score.num * 100 > pct * score.den

ScoreBelowPct(score, pct) ==
    score.num * 100 < pct * score.den

HighConvergencePct ==
    85

LowProgressPct ==
    10

\* _calculate_convergence_score without the early return on an empty
\* previous set.
_calculate_convergence_score_without_early_return(previous, new) ==
    LET overlap == Cardinality(previous \cap new)
        total_unique == Cardinality(previous \cup new)
    IN  IF total_unique > 0
        THEN [num |-> overlap, den |-> total_unique]
        ELSE ScoreOne

\* _calculate_convergence_score
_calculate_convergence_score(previous, new) ==
    IF previous = {}
    THEN ScoreZero
    ELSE LET overlap == Cardinality(previous \cap new)
             total_unique == Cardinality(previous \cup new)
         IN  IF total_unique > 0
             THEN [num |-> overlap, den |-> total_unique]
             ELSE ScoreOne

\* _extract_changes_from_context: f"{file}:{change_type}" of every result
\* with a true "success" and a non-empty "file".
_extract_changes_from_context(ctx) ==
    LET implementation_results == DictGet(ctx.data, "implementation_results", <<>>)
    IN  { implementation_results[k].file \o StrColon
              \o DictGet(implementation_results[k], "change_type", StrUnknown) :
          k \in { j \in DOMAIN implementation_results :
                    /\ DictGet(implementation_results[j], "success", FALSE)
                    /\ DictGet(implementation_results[j], "file", <<>>) # <<>> } }

\* str.lower, character by character.
LowerTable ==
    ("A" :> "a") @@ ("B" :> "b") @@ ("C" :> "c") @@ ("D" :> "d")
    @@ ("E" :> "e") @@ ("F" :> "f") @@ ("G" :> "g") @@ ("H" :> "h")
    @@ ("I" :> "i") @@ ("J" :> "j") @@ ("K" :> "k") @@ ("L" :> "l")
    @@ ("M" :> "m") @@ ("N" :> "n") @@ ("O" :> "o") @@ ("P" :> "p")
    @@ ("Q" :> "q") @@ ("R" :> "r") @@ ("S" :> "s") @@ ("T" :> "t")
    @@ ("U" :> "u") @@ ("V" :> "v") @@ ("W" :> "w") @@ ("X" :> "x")
    @@ ("Y" :> "y") @@ ("Z" :> "z")

LowerChar(c) ==
    IF c \in DOMAIN LowerTable THEN LowerTable[c] ELSE c

Lower(s) ==
    [k \in DOMAIN s |-> LowerChar(s[k])]

critical_keywords ==
    {KwAuthentication, KwAuthorization, KwPermission, KwSecurity, KwFatal}

\* _is_critical_error comparing the message as it is, without lower().
_is_critical_error_case_sensitive(error) ==
    IF error = None \/ error = Some(<<>>)
    THEN FALSE
    ELSE \E keyword \in critical_keywords : Contains(error[1], keyword)

\* _is_critical_error; `not error` holds for None and for the empty string.
_is_critical_error(error) ==
    IF error = None \/ error = Some(<<>>)
    THEN FALSE
    ELSE \E keyword \in critical_keywords : Contains(Lower(error[1]), keyword)

\* _all_validations_pass
_all_validations_pass(validation_results) ==
    IF validation_results = <<>>
    THEN FALSE
    ELSE \A k \in DOMAIN validation_results :
            /\ DictGet(validation_results[k], "syntax_valid", FALSE)
            /\ DictGet(validation_results[k], "file_readable", FALSE)

\* _extract_essential_context counting as failed only the results whose
\* "success" is present and false.
_extract_essential_context_explicit_failures(context_data) ==
    LET with_validation ==
            IF "validation_results" \in DOMAIN context_data
            THEN DictSet(EmptyDict, "validation_results", context_data["validation_results"])
            ELSE EmptyDict
        with_summary ==
            IF "implementation_results" \in DOMAIN context_data
            THEN LET results == context_data["implementation_results"]
                 IN  DictSet(with_validation, "implementation_summary",
                        [total_changes |-> Len(results),
                         successful_changes |-> Cardinality(
                            {k \in DOMAIN results : DictGet(results[k], "success", FALSE)}),
                         failed_changes |-> Cardinality(
                            {k \in DOMAIN results : ~DictGet(results[k], "success", TRUE)})])
            ELSE with_validation
    IN  IF "goal" \in DOMAIN context_data
        THEN DictSet(with_summary, "goal", context_data["goal"])
        ELSE with_summary

\* _extract_essential_context
_extract_essential_context(context_data) ==
    LET with_validation ==
            IF "validation_results" \in DOMAIN context_data
            THEN DictSet(EmptyDict, "validation_results", context_data["validation_results"])
            ELSE EmptyDict
        with_summary ==
            IF "implementation_results" \in DOMAIN context_data
            THEN LET results == context_data["implementation_results"]
                 IN  DictSet(with_validation, "implementation_summary",
                        [total_changes |-> Len(results),
                         successful_changes |-> Cardinality(
                            {k \in DOMAIN results : DictGet(results[k], "success", FALSE)}),
                         failed_changes |-> Cardinality(
                            {k \in DOMAIN results : ~DictGet(results[k], "success", FALSE)})])
            ELSE with_validation
    IN  IF "goal" \in DOMAIN context_data
        THEN DictSet(with_summary, "goal", context_data["goal"])
        ELSE with_summary

\* _generate_iteration_summary: the fields the text is built from. The
\* success rate divides by the number of iterations.
SummaryRaisesNever(results) ==
    FALSE

SummaryRaises(results) ==
    Len(results) = 0

\* _generate_iteration_summary listing the successful iterations only.
_generate_iteration_summary_successes_only(results, the_goal) ==
    LET total_iterations == Len(results)
        successful == SelectSeq(results, LAMBDA r : r.success)
    IN  "iteration_summary.md" :>
            [goal |-> the_goal,
             total_iterations |-> total_iterations,
             successful_iterations |-> Len(successful),
             entries |-> [k \in DOMAIN successful |->
                            [iteration |-> successful[k].iteration,
                             success |-> successful[k].success,
                             error |-> successful[k].error,
                             artifact_names |-> DOMAIN successful[k].artifacts]],
             assessment |-> IF Len(successful) = total_iterations
                            THEN "ALL ITERATIONS SUCCESSFUL"
                            ELSE IF Len(successful) > 0
                                 THEN "PARTIALLY SUCCESSFUL"
                                 ELSE "FAILED"]

_generate_iteration_summary(results, the_goal) ==
    LET total_iterations == Len(results)
        successful_iterations == Cardinality({k \in DOMAIN results : results[k].success})
    IN  "iteration_summary.md" :>
            [goal |-> the_goal,
             total_iterations |-> total_iterations,
             successful_iterations |-> successful_iterations,
             entries |-> [k \in DOMAIN results |->
                            [iteration |-> results[k].iteration,
                             success |-> results[k].success,
                             error |-> results[k].error,
                             artifact_names |-> DOMAIN results[k].artifacts]],
             assessment |-> IF successful_iterations = total_iterations
                            THEN "ALL ITERATIONS SUCCESSFUL"
                            ELSE IF successful_iterations > 0
                                 THEN "PARTIALLY SUCCESSFUL"
                                 ELSE "FAILED"]

\* range(1, max_iterations + 1)
IterationRangeOneMore(maximum) ==
    1..(maximum + 1)

IterationRange(maximum) ==
    1..maximum

\* `if not result.success: if self._is_critical_error(result.error): break`
CriticalStopNever(res) ==
    FALSE

CriticalStopAlways(res) ==
    ~res.success

CriticalStop(res) ==
    ~res.success /\ _is_critical_error(res.error)

\* The two convergence breaks of the loop, taken at iterations after the first.
ConvergenceStopNever(score, iter) ==
    FALSE

\* The convergence breaks without the `elif` branch for no progress.
ConvergenceStopHighOnly(score, iter) ==
    ScoreAbovePct(score, HighConvergencePct)

\* The convergence breaks with the no-progress branch taken after the
\* second iteration only.
ConvergenceStopAfterSecond(score, iter) ==
    \/ ScoreAbovePct(score, HighConvergencePct)
    \/ ScoreBelowPct(score, LowProgressPct) /\ iter > 2

ConvergenceStop(score, iter) ==
    \/ ScoreAbovePct(score, HighConvergencePct)
    \/ ScoreBelowPct(score, LowProgressPct) /\ iter >= 2

----------------------------------------------------------------------------
(* core/orchestrator.py: ActionOrchestrator *)

\* Names used by plans of the orchestrator specification; an action is
\* registered with register_action, or left out of the registry.
PlanNames ==
    {analyze, plan_name, implement}

\* get_dependencies() of an action; BaseAction's default is the empty list,
\* which no action of the default registry overrides with a non-empty one.
get_dependencies(name) ==
    CASE name = plan_name -> <<analyze>>
      [] name = implement -> <<analyze, plan_name>>
      [] OTHER -> <<>>

\* _register_actions: the default registry.
DefaultActionNames ==
    {analyze_code, generate_tests, run_tests, generate_report,
     github_read_pr, github_analyze_pr, github_publish_review, mcp_pr_review,
     analyze_codebase, plan_improvements, implement_changes, validate_changes}

\* The default registry with generate_improvement_report registered too.
_register_actions_with_report ==
    [n \in DefaultActionNames \cup {generate_improvement_report} |-> get_dependencies(n)]

_register_actions ==
    [n \in DefaultActionNames |-> get_dependencies(n)]

\* register_action(name, action) for each name of a set.
register_actions(registry, names) ==
    [n \in (DOMAIN registry) \cup names |->
        IF n \in names THEN get_dependencies(n) ELSE registry[n]]

\* [h["action"] for h in context.history if h["success"]]
SucceededActions(ctx) ==
    {ctx.history[k].action : k \in {j \in DOMAIN ctx.history : ctx.history[j].success}}

\* Dependencies the loop of _execute_action finds unmet, in declaration
\* order; the loop returns at the first of them.
MissingDependenciesNoCheck(dependencies, ctx) ==
    <<>>

MissingDependenciesFirstOnly(dependencies, ctx) ==
    SelectSeq(SubSeq(dependencies, 1, IF dependencies = <<>> THEN 0 ELSE 1),
              LAMBDA dep : dep \notin SucceededActions(ctx))

MissingDependencies(dependencies, ctx) ==
    SelectSeq(dependencies, LAMBDA dep : dep \notin SucceededActions(ctx))

\* `if not result.success` of execute_plan.
ResultFailedNever(res) ==
    FALSE

ResultFailed(res) ==
    ~res.success

\* RuntimeError(f"Action '{step}' failed: {result.error}")
PlanFailureMessage(step, res) ==
    MsgActionQuote \o step \o MsgQuoteFailed \o Format(res.error)

\* What awaiting action.execute(context) can produce: a result or an exception.
Returned(res) ==
    [raised |-> FALSE, result |-> res, text |-> <<>>]

Raised(text) ==
    [raised |-> TRUE, result |-> ActionResult_error_result(text, EmptyDict), text |-> text]

\* Outcomes of the code-improvement actions: what they put into the context
\* on success, and the failures of the tools they call.
ImplementationResults ==
    { <<>>,
      <<[success |-> TRUE, file |-> fileA, change_type |-> edit]>>,
      <<[success |-> TRUE, file |-> fileA, change_type |-> edit],
        [success |-> FALSE, file |-> fileB, change_type |-> edit]>>,
      <<[success |-> TRUE, file |-> fileA, change_type |-> edit],
        [success |-> TRUE, file |-> fileB]>> }

\* validate_changes: one entry per successful change with a file; an
\* unreadable file is never syntax-valid.
ValidationFlags ==
    {<<TRUE, TRUE>>, <<FALSE, TRUE>>, <<FALSE, FALSE>>}

ValidationResultsFor(ctx) ==
    LET implementation_results == DictGet(ctx.data, "implementation_results", <<>>)
        changed == SelectSeq(implementation_results,
                       LAMBDA r : DictGet(r, "success", FALSE) /\ DictGet(r, "file", <<>>) # <<>>)
    IN  { [k \in DOMAIN changed |->
              [file |-> changed[k].file,
               syntax_valid |-> flags[k][1],
               file_readable |-> flags[k][2]]] :
          flags \in [DOMAIN changed -> ValidationFlags] }

ScenarioOutcomes(name, ctx) ==
    CASE name = analyze_codebase ->
            { Returned(ActionResult_success_result(
                  [goal |-> DictGet(ctx.data, "goal", "General code improvement")],
                  "analysis_report.md" :> 1)),
              Returned(ActionResult_error_result(MsgNetworkHiccup, EmptyDict)),
              Returned(ActionResult_error_result(MsgPermissionDenied, EmptyDict)) }
      [] name = plan_improvements ->
            { Returned(ActionResult_success_result(
                  [implementation_plan |-> 1], "implementation_plan.md" :> 1)) }
      [] name = implement_changes ->
            { Returned(ActionResult_success_result(
                  [implementation_results |-> r], "implementation_results.md" :> 1)) :
              r \in ImplementationResults }
            \cup { Returned(ActionResult_error_result(MsgTimeout, EmptyDict)) }
      [] name = validate_changes ->
            { Returned(ActionResult_success_result(
                  [validation_results |-> v], "validation_report.md" :> 1)) :
              v \in ValidationResultsFor(ctx) }
      [] OTHER ->
            { Returned(ActionResult_success_result(
                  [summary |-> 1], "improvement_report.md" :> 1)) }

\* Outcomes of the actions of the orchestrator specification (opaque user
\* actions: any ActionResult, or an exception).
GenericOutcomes ==
    { Returned(ActionResult_success_result(EmptyDict, EmptyDict)),
      Returned(ActionResult_success_result([x |-> 1], EmptyDict)),
      Returned(ActionResult_success_result([x |-> 2], [report |-> 1])),
      Returned(ActionResult_success_result([x |-> 1, y |-> 2], [notes |-> 2])),
      Returned(ActionResult_error_result(MsgTimeout, EmptyDict)),
      Returned(ActionResult_error_result(MsgNetworkHiccup, [x |-> 3])),
      Raised(MsgDivisionByZero) }

ExecuteOutcomes(name, ctx) ==
    IF name \in PlanNames THEN GenericOutcomes ELSE ScenarioOutcomes(name, ctx)

\* The except branch answering with an empty successful result.
ExecuteResultSwallowsException(outcome) ==
    IF outcome.raised
    THEN ActionResult_success_result(EmptyDict, EmptyDict)
    ELSE outcome.result

\* try: result = await action.execute(context) ... except Exception as e
ExecuteResult(outcome) ==
    IF outcome.raised
    THEN ActionResult_error_result(MsgActionExecutionError \o outcome.text, EmptyDict)
    ELSE outcome.result

\* ActionContext.__init__ taking a copy of the dict it is given.
SharesInitialDataNever(initial) ==
    FALSE

\* ActionContext.__init__, `self.data = initial_data or {}`: the data of the
\* context is the caller's dict itself, unless that dict is empty.
SharesInitialData(initial) ==
    initial # EmptyDict

\* The caller's dict after the data of the context became new_data.
CallersDict(initial, new_data) ==
    IF SharesInitialData(initial) THEN new_data ELSE initial

\* execute_plan up to its loop: a fresh context seeded with initial_data,
\* stamped with a timestamp and the correlation id.
StartPlan(steps, initial) ==
    /\ plan' = steps
    /\ context' = Some(ActionContext_set(
                      ActionContext_set(ActionContext(initial), "timestamp", 0),
                      "correlation_id", 0))
    /\ plan_initial_data' = CallersDict(initial, context'[1].data)
    /\ step_index' = 1
    /\ result' = None
    /\ plan_error' = None
    /\ invoked' = <<>>
    /\ plan_pc' = IF steps = <<>> THEN "returned" ELSE "step"

\* RuntimeError(message): the exception object holds its message and
\* nothing else.
RuntimeError(message) ==
    [args |-> <<message>>]

\* The exception that leaves execute_plan.
RaisedError ==
    RuntimeError(plan_error[1])

\* The result for an unregistered name with the placeholder left unformatted.
UnknownActionNoName(action_name) ==
    ActionResult_error_result(
        MsgUnknownAction \o <<"{", "a", "c", "t", "i", "o", "n", "_", "n", "a", "m", "e", "}">>,
        EmptyDict)

\* ActionResult.error_result(f"Unknown action: {action_name}")
UnknownAction(action_name) ==
    ActionResult_error_result(MsgUnknownAction \o action_name, EmptyDict)

\* `raise RuntimeError(...)` after an unsuccessful result.
FailPlan(res) ==
    /\ result' = Some(res)
    /\ plan_error' = Some(PlanFailureMessage(plan[step_index], res))
    /\ plan_pc' = "raised"
    /\ UNCHANGED <<plan, step_index, context, plan_initial_data>>

\* context.update / add_artifacts / add_to_history, then the next step.
MergeResult(res) ==
    /\ result' = Some(res)
    /\ context' = Some(ActionContext_add_to_history(
                      ActionContext_add_artifacts(
                          ActionContext_update(context[1], res.data),
                          res.artifacts),
                      plan[step_index], res))
    /\ plan_initial_data' = CallersDict(plan_initial_data, context'[1].data)
    /\ step_index' = IF step_index = Len(plan) THEN step_index ELSE step_index + 1
    /\ plan_pc' = IF step_index = Len(plan) THEN "returned" ELSE "step"
    /\ UNCHANGED <<plan, plan_error>>

\* _execute_action before the await: registry lookup and dependency check.
DispatchAction ==
    /\ plan_pc = "step"
    /\ LET name == plan[step_index]
       IN  IF name \notin DOMAIN actions
           THEN /\ FailPlan(UnknownAction(name))
                /\ UNCHANGED invoked
           ELSE LET missing == MissingDependencies(actions[name], context[1])
                IN  IF missing # <<>>
                    THEN /\ FailPlan(ActionResult_error_result(
                                MsgMissingDependency \o Head(missing), EmptyDict))
                         /\ UNCHANGED invoked
                    ELSE /\ plan_pc' = "executing"
                         /\ invoked' = Append(invoked,
                                [step |-> step_index, done |-> FALSE, raised |-> FALSE,
                                 success |-> FALSE, error |-> None])
                         /\ UNCHANGED <<plan, step_index, context, result, plan_error,
                                        plan_initial_data>>
    /\ UNCHANGED actions
    /\ UNCHANGED <<scen_vars, pure_vars, graph_vars>>

\* action.execute returns or raises; execute_plan raises on failure, else merges.
ActionReturns ==
    /\ plan_pc = "executing"
    /\ \E outcome \in ExecuteOutcomes(plan[step_index], context[1]) :
         LET res == ExecuteResult(outcome)
         IN  /\ invoked' = [invoked EXCEPT ![Len(invoked)] =
                    [step |-> step_index, done |-> TRUE, raised |-> outcome.raised,
                     success |-> res.success, error |-> res.error]]
             /\ IF ResultFailed(res) THEN FailPlan(res) ELSE MergeResult(res)
    /\ input_data' = IF scen_pc = "executing" /\ iteration_input_object = "input_data"
                     THEN plan_initial_data'
                     ELSE input_data
    /\ UNCHANGED actions
    /\ UNCHANGED <<loop_vars, pure_vars, graph_vars>>

----------------------------------------------------------------------------
(* Specification of one execute_plan call on an orchestrator whose registry
   holds the default actions and any subset of PlanNames. *)

Plans ==
    UNION {[1..n -> PlanNames] : n \in 0..MaxPlanLen}

InitialDatas ==
    {EmptyDict, [x |-> 0], [y |-> 0, z |-> 0]}

InitOrchestrator ==
    /\ plan = <<>>
    /\ step_index = 1
    /\ context = None
    /\ result = None
    /\ plan_error = None
    /\ plan_initial_data = EmptyDict
    /\ invoked = <<>>
    /\ plan_pc = "idle"

\* The scenario is not running.
ScenarioIdle ==
    /\ input_data = EmptyDict
    /\ goal = ""
    /\ max_iterations = 0
    /\ iteration = 0
    /\ iteration_input = EmptyDict
    /\ iteration_input_object = "none"
    /\ iteration_results = <<>>
    /\ current_context = None
    /\ convergence_score = ScoreZero
    /\ previous_changes = {}
    /\ pass_changes = <<>>
    /\ scenario_result = None
    /\ scen_pc = "idle"
    /\ pass_result = None

\* No call of _calculate_convergence_score is being observed.
NoScoreCall ==
    [previous |-> {}, new |-> {}, score |-> None]

\* No call of _is_critical_error is being observed.
NoCriticalCall ==
    [error |-> None, critical |-> None]

\* No call of _extract_essential_context is being observed.
NoEssentialCall ==
    [context_data |-> EmptyDict, essential |-> None]

\* No _execute_graph is running.
GraphIdle ==
    /\ graph_agents = {}
    /\ graph_plan = [agents |-> <<>>, dependencies |-> EmptyDict]
    /\ graph_input = EmptyDict
    /\ execution_order = <<>>
    /\ order_index = 1
    /\ graph_results = EmptyDict
    /\ completed = {}
    /\ executions = <<>>
    /\ graph_error = None
    /\ graph_pc = "idle"

InitPlan ==
    /\ actions \in {register_actions(_register_actions, names) : names \in SUBSET PlanNames}
    /\ InitOrchestrator
    /\ ScenarioIdle
    /\ GraphIdle
    /\ score_call = NoScoreCall
    /\ critical_call = NoCriticalCall
    /\ essential_call = NoEssentialCall

execute_plan ==
    /\ plan_pc = "idle"
    /\ \E steps \in Plans, initial_data \in InitialDatas : StartPlan(steps, initial_data)
    /\ UNCHANGED actions
    /\ UNCHANGED <<scen_vars, pure_vars, graph_vars>>

NextPlan ==
    \/ execute_plan
    \/ DispatchAction
    \/ ActionReturns

SpecPlan ==
    InitPlan /\ [][NextPlan]_vars

----------------------------------------------------------------------------
(* CodeImprovementScenario.execute_with_iterations and the execute passes
   it awaits *)

DefaultMaxIterations ==
    3

\* Inputs of the caller: with and without the optional keys.
ScenarioInputs ==
    { [target_directory |-> "."] }
    \cup { [goal |-> "G", target_directory |-> ".", max_iterations |-> k] :
           k \in (-1)..MaxIterations }

\* list(previous_changes): the elements of the set in some order.
ListsOf(set) ==
    { order \in [1..Cardinality(set) -> set] : Range(order) = set }

InitScenario ==
    /\ actions \in { _register_actions,
                     register_actions(_register_actions, {generate_improvement_report}) }
    /\ InitOrchestrator
    /\ ScenarioIdle
    /\ GraphIdle
    /\ score_call = NoScoreCall
    /\ critical_call = NoCriticalCall
    /\ essential_call = NoEssentialCall

\* Entry of execute_with_iterations up to the loop.
execute_with_iterations ==
    /\ scen_pc = "idle"
    /\ \E data \in ScenarioInputs :
         /\ input_data' = data
         /\ goal' = DictGet(data, "goal", "Improve code quality")
         /\ max_iterations' = DictGet(data, "max_iterations", DefaultMaxIterations)
         /\ scen_pc' = IF 1 \in IterationRange(DictGet(data, "max_iterations", DefaultMaxIterations))
                       THEN "loop" ELSE "summary"
    /\ iteration' = 1
    /\ iteration_results' = <<>>
    /\ current_context' = None
    /\ convergence_score' = ScoreZero
    /\ previous_changes' = {}
    /\ UNCHANGED <<iteration_input, iteration_input_object, pass_changes, scenario_result,
                   pass_result>>
    /\ UNCHANGED <<orch_vars, pure_vars, graph_vars>>

\* The iteration input forwarding the whole data of the previous context.
PrepareIterationInputFullContext(data, ctx, iter, score, previous_list) ==
    IF ctx # None
    THEN DictUpdate(data,
           [previous_results |-> ctx[1].data,
            iteration_number |-> iter,
            convergence_score |-> score,
            previous_changes |-> previous_list])
    ELSE data

\* `iteration_input = input_data` in place of the copy.
dict_same_object(object) ==
    object

\* dict.copy(): a new dict object with the same items.
dict_copy(object) ==
    "iteration_input"

\* iteration_input = input_data.copy(), updated when there is a context.
PrepareIterationInput(data, ctx, iter, score, previous_list) ==
    IF ctx # None
    THEN DictUpdate(data,
           [previous_results |-> _extract_essential_context(ctx[1].data),
            iteration_number |-> iter,
            convergence_score |-> score,
            previous_changes |-> previous_list])
    ELSE data

\* Loop body up to `await self.execute(iteration_input)`, and execute up to
\* the first step of its plan.
BeginIteration ==
    /\ scen_pc = "loop"
    /\ \E previous_list \in ListsOf(previous_changes) :
         \E prepared \in {PrepareIterationInput(input_data, current_context, iteration,
                                                convergence_score, previous_list)} :
             /\ iteration_input' = prepared
             /\ iteration_input_object' = dict_copy("input_data")
             /\ StartPlan(ScenarioPlan, prepared)
             /\ input_data' = IF iteration_input_object' = "input_data"
                              THEN CallersDict(prepared, context'[1].data)
                              ELSE input_data
    /\ scen_pc' = "executing"
    /\ UNCHANGED <<actions, goal, max_iterations, iteration, iteration_results,
                   current_context, convergence_score, previous_changes, pass_changes,
                   scenario_result, pass_result, pure_vars, graph_vars>>

\* execute's return value with an error message that leaves out str(e).
PassResultNoCause ==
    IF plan_pc = "returned"
    THEN ScenarioResult_success_result(context[1], EmptyDict)
    ELSE ScenarioResult_error_result(MsgScenarioFailed)

\* execute's return value: success_result(context), or error_result on the
\* exception raised by execute_plan.
PassResult ==
    IF plan_pc = "returned"
    THEN ScenarioResult_success_result(context[1], EmptyDict)
    ELSE ScenarioResult_error_result(MsgScenarioFailed \o plan_error[1])

\* The validation check of the loop body reading a misspelt key.
ValidationStopWrongKey(ctx) ==
    LET validation_results == DictGet(ctx.data, "validation_result", <<>>)
    IN  validation_results # <<>> /\ _all_validations_pass(validation_results)

\* The validation check of the loop body: the key is present and every
\* entry passes.
ValidationStop(ctx) ==
    LET validation_results == DictGet(ctx.data, "validation_results", <<>>)
    IN  validation_results # <<>> /\ _all_validations_pass(validation_results)

\* Rest of the loop body after execute returned, and the loop's next test.
EndIteration ==
    /\ scen_pc = "executing"
    /\ plan_pc \in {"returned", "raised"}
    /\ \E res \in {PassResult} :
       \E new_changes \in {_extract_changes_from_context(res.context)} :
       \E score \in {IF res.success /\ iteration > 1
                     THEN _calculate_convergence_score(previous_changes, new_changes)
                     ELSE convergence_score} :
       \E critical \in {CriticalStop(res)} :
       LET converged == res.success /\ iteration > 1 /\ ConvergenceStop(score, iteration)
           validated == res.success /\ ~converged /\ ValidationStop(res.context)
           break == converged \/ validated \/ critical
       IN  /\ iteration_results' = Append(iteration_results,
                  [iteration |-> iteration, success |-> res.success,
                   error |-> res.error, artifacts |-> res.artifacts])
           /\ pass_result' = Some(res)
           /\ pass_changes' = Append(pass_changes, IF res.success THEN new_changes ELSE {})
           /\ current_context' = IF res.success THEN Some(res.context) ELSE current_context
           /\ convergence_score' = score
           /\ previous_changes' = IF res.success /\ iteration > 1 /\ ~converged
                                  THEN previous_changes \cup new_changes
                                  ELSE previous_changes
           /\ IF ~break /\ (iteration + 1) \in IterationRange(max_iterations)
              THEN iteration' = iteration + 1 /\ scen_pc' = "loop"
              ELSE iteration' = iteration /\ scen_pc' = "summary"
    /\ plan_pc' = "idle"
    /\ UNCHANGED <<actions, plan, step_index, context, result, plan_error, plan_initial_data,
                   invoked>>
    /\ UNCHANGED <<input_data, goal, max_iterations, iteration_input, iteration_input_object,
                   scenario_result, pure_vars, graph_vars>>

\* After the loop: the summary, attached to the last successful context;
\* an exception of this part becomes an error result.
FinishIterations ==
    /\ scen_pc = "summary"
    /\ IF SummaryRaises(iteration_results)
       THEN /\ scenario_result' = Some(ScenarioResult_error_result(
                                        MsgIterativeFailed \o MsgDivisionByZero))
            /\ UNCHANGED current_context
       ELSE LET final_artifacts == _generate_iteration_summary(iteration_results, goal)
            IN  IF current_context # None
                THEN LET ctx == ActionContext_add_artifacts(current_context[1], final_artifacts)
                     IN  /\ current_context' = Some(ctx)
                         /\ scenario_result' = Some(ScenarioResult_success_result(ctx, final_artifacts))
                ELSE /\ scenario_result' = Some(ScenarioResult_success_result(
                                                 ActionContext(EmptyDict), final_artifacts))
                     /\ UNCHANGED current_context
    /\ scen_pc' = "done"
    /\ UNCHANGED <<input_data, goal, max_iterations, iteration, iteration_input,
                   iteration_input_object, iteration_results, convergence_score, previous_changes, pass_changes,
                   pass_result>>
    /\ UNCHANGED <<orch_vars, pure_vars, graph_vars>>

NextScenario ==
    \/ execute_with_iterations
    \/ BeginIteration
    \/ DispatchAction
    \/ ActionReturns
    \/ EndIteration
    \/ FinishIterations

SpecScenario ==
    InitScenario /\ [][NextScenario]_vars

\* The awaited actions return and the loop's own steps are always taken.
FairSpecScenario ==
    SpecScenario /\ WF_vars(NextScenario)

\* Single-pass executions started so far.
Passes ==
    Len(iteration_results) + (IF scen_pc = "executing" THEN 1 ELSE 0)

----------------------------------------------------------------------------
(* _calculate_convergence_score on its own: every pair of signature sets *)

SignatureUniverse ==
    {fileA \o StrColon \o edit, fileB \o StrColon \o edit, fileB \o StrColon \o StrUnknown}

InitScore ==
    /\ actions = _register_actions
    /\ InitOrchestrator
    /\ ScenarioIdle
    /\ GraphIdle
    /\ score_call \in {[previous |-> p, new |-> n, score |-> None] :
                         p \in SUBSET SignatureUniverse, n \in SUBSET SignatureUniverse}
    /\ critical_call = NoCriticalCall
    /\ essential_call = NoEssentialCall

CalculateScore ==
    /\ score_call.score = None
    /\ score_call' = [score_call EXCEPT
            !.score = Some(_calculate_convergence_score(score_call.previous, score_call.new))]
    /\ UNCHANGED <<orch_vars, scen_vars, critical_call, essential_call, graph_vars>>

NextScore ==
    CalculateScore

SpecScore ==
    InitScore /\ [][NextScore]_vars

----------------------------------------------------------------------------
(* _is_critical_error on its own: absent, empty and worded messages *)

UpperChar(c) ==
    IF \E u \in DOMAIN LowerTable : LowerTable[u] = c
    THEN CHOOSE u \in DOMAIN LowerTable : LowerTable[u] = c
    ELSE c

Upper(s) ==
    [k \in DOMAIN s |-> UpperChar(s[k])]

Capitalize(s) ==
    [k \in DOMAIN s |-> IF k = 1 THEN UpperChar(s[k]) ELSE s[k]]

\* Each keyword as it is, in capitals, capitalised, and cut short at either
\* end.
ErrorWords ==
    UNION { { w, Upper(w), Capitalize(w), SubSeq(w, 1, Len(w) - 1), SubSeq(w, 2, Len(w)) } :
            w \in critical_keywords }

ErrorPrefixes ==
    { <<>>, <<"E", "r", "r", "o", "r", ":", " ">>, <<"n", "o", " ">> }

ErrorSuffixes ==
    { <<>>, <<" ", "d", "e", "n", "i", "e", "d">> }

\* Arguments of _is_critical_error: None, "", and worded messages.
ErrorMessages ==
    { None, Some(<<>>) }
    \cup { Some(p \o w \o x) : p \in ErrorPrefixes, w \in ErrorWords, x \in ErrorSuffixes }

InitCritical ==
    /\ actions = _register_actions
    /\ InitOrchestrator
    /\ ScenarioIdle
    /\ GraphIdle
    /\ score_call = NoScoreCall
    /\ critical_call \in {[error |-> e, critical |-> None] : e \in ErrorMessages}
    /\ essential_call = NoEssentialCall

ClassifyError ==
    /\ critical_call.critical = None
    /\ critical_call' = [critical_call EXCEPT
            !.critical = Some(_is_critical_error(critical_call.error))]
    /\ UNCHANGED <<orch_vars, scen_vars, score_call, essential_call, graph_vars>>

NextCritical ==
    ClassifyError

SpecCritical ==
    InitCritical /\ [][NextCritical]_vars

----------------------------------------------------------------------------
(* _extract_essential_context on its own: context data with and without
   each source key *)

\* Lists of at most two implementation results: applied, failed, and one
\* that reports no "success" at all.
EssentialImplementationResults ==
    LET one == { [success |-> TRUE, file |-> fileA, change_type |-> edit],
                 [success |-> FALSE, file |-> fileB],
                 [file |-> fileB, change_type |-> edit] }
    IN  UNION {[1..n -> one] : n \in 0..2}

\* The value bound to each key of the context data: "previous_results" is
\* what an earlier iteration's extraction forwarded.
EssentialValue(key, implementation_results) ==
    CASE key = "validation_results" ->
            <<[file |-> fileA, syntax_valid |-> TRUE, file_readable |-> TRUE]>>
      [] key = "implementation_results" -> implementation_results
      [] key = "goal" -> "G"
      [] key = "previous_results" ->
            [implementation_summary |->
                 [total_changes |-> 1, successful_changes |-> 1, failed_changes |-> 0],
             goal |-> "G"]
      [] OTHER -> 0

ContextDatas ==
    { [key \in keys |-> EssentialValue(key, results)] :
        keys \in SUBSET {"validation_results", "implementation_results", "goal",
                         "previous_results", "timestamp"},
        results \in EssentialImplementationResults }

InitEssential ==
    /\ actions = _register_actions
    /\ InitOrchestrator
    /\ ScenarioIdle
    /\ GraphIdle
    /\ score_call = NoScoreCall
    /\ critical_call = NoCriticalCall
    /\ essential_call \in {[context_data |-> data, essential |-> None] : data \in ContextDatas}

ExtractEssential ==
    /\ essential_call.essential = None
    /\ essential_call' = [essential_call EXCEPT
            !.essential = Some(_extract_essential_context(essential_call.context_data))]
    /\ UNCHANGED <<orch_vars, scen_vars, score_call, critical_call, graph_vars>>

NextEssential ==
    ExtractEssential

SpecEssential ==
    InitEssential /\ [][NextEssential]_vars

----------------------------------------------------------------------------
(* framework/orchestrator.py: AgentOrchestrator, GRAPH strategy *)

MaxGraphAgents ==
    3

GraphAgentIds ==
    {"a", "b", "c"}

\* dependencies.get(agent, [])
DependenciesOf(dependencies, agent) ==
    DictGet(dependencies, agent, <<>>)

\* The keys of `in_degree` in insertion order: the agents of the list, each
\* at its first occurrence.
FirstOccurrences(agents) ==
    LET upto[k \in 0..Len(agents)] ==
            IF k = 0
            THEN <<>>
            ELSE IF \E j \in 1..(k - 1) : agents[j] = agents[k]
                 THEN upto[k - 1]
                 ELSE Append(upto[k - 1], agents[k])
    IN  upto[Len(agents)]

\* `in_degree` after the two nested loops: one increment per occurrence of
\* the agent in the list and per entry of its dependency list that is a key
\* of in_degree.
InitialInDegree(agents, dependencies) ==
    [agent \in Range(agents) |->
        Cardinality({k \in DOMAIN agents : agents[k] = agent})
        * Cardinality({j \in DOMAIN DependenciesOf(dependencies, agent) :
                          DependenciesOf(dependencies, agent)[j] \in Range(agents)})]

\* The inner loop `for agent in agents` after `current` was popped, from
\* position k of the list on.
RECURSIVE UpdateInDegrees(_, _, _, _, _)
UpdateInDegrees(agents, dependencies, current, state, k) ==
    IF k > Len(agents)
    THEN state
    ELSE LET agent == agents[k]
         IN  IF current \in Range(DependenciesOf(dependencies, agent))
             THEN LET degree == state.in_degree[agent] - 1
                  IN  UpdateInDegrees(agents, dependencies, current,
                          [in_degree |-> [state.in_degree EXCEPT ![agent] = degree],
                           queue |-> IF degree = 0
                                     THEN Append(state.queue, agent)
                                     ELSE state.queue],
                          k + 1)
             ELSE UpdateInDegrees(agents, dependencies, current, state, k + 1)

\* `while queue:` of _topological_sort.
RECURSIVE DrainQueue(_, _, _, _)
DrainQueue(agents, dependencies, state, sorted) ==
    IF state.queue = <<>>
    THEN sorted
    ELSE LET current == Head(state.queue)
         IN  DrainQueue(agents, dependencies,
                 UpdateInDegrees(agents, dependencies, current,
                     [in_degree |-> state.in_degree, queue |-> Tail(state.queue)], 1),
                 Append(sorted, current))

\* _topological_sort returning whatever it sorted, without the length test.
_topological_sort_unchecked(agents, dependencies) ==
    LET in_degree == InitialInDegree(agents, dependencies)
        queue == SelectSeq(FirstOccurrences(agents), LAMBDA agent : in_degree[agent] = 0)
        sorted == DrainQueue(agents, dependencies,
                             [in_degree |-> in_degree, queue |-> queue], <<>>)
    IN  [raised |-> FALSE, order |-> sorted]

\* _topological_sort: the order, or the ValueError for a circular
\* dependency.
_topological_sort(agents, dependencies) ==
    LET in_degree == InitialInDegree(agents, dependencies)
        queue == SelectSeq(FirstOccurrences(agents), LAMBDA agent : in_degree[agent] = 0)
        sorted == DrainQueue(agents, dependencies,
                             [in_degree |-> in_degree, queue |-> queue], <<>>)
    IN  IF Len(sorted) # Len(agents)
        THEN [raised |-> TRUE, order |-> <<>>]
        ELSE [raised |-> FALSE, order |-> sorted]

\* ValueError("Circular dependency detected in agent graph")
CircularDependencyError ==
    [type |-> "ValueError", message |-> <<"Circular dependency detected in agent graph">>]

\* ValueError(f"Agent {agent_id} not found")
AgentNotFoundError(agent_id) ==
    [type |-> "ValueError", message |-> <<"Agent ", agent_id, " not found">>]

\* An exception raised by the execute of an agent.
AgentExecuteError(agent_id) ==
    [type |-> "Exception", message |-> <<"execute of ", agent_id, " failed">>]

\* What the execute of an agent returns.
AgentResult(agent_id) ==
    [produced_by |-> agent_id]

\* `agent_input` of _execute_graph.
AgentInput(execution_plan, original_input, results, agent_id) ==
    IF agent_id \in DOMAIN execution_plan.dependencies
    THEN [original_input |-> original_input,
          dependency_results |->
              [dep_id \in {d \in Range(execution_plan.dependencies[agent_id]) : d \in DOMAIN results}
                  |-> results[dep_id]]]
    ELSE original_input

\* Entry of _execute_graph: the topological sort.
_execute_graph ==
    /\ graph_pc = "idle"
    /\ \E sorted \in {_topological_sort(graph_plan.agents, graph_plan.dependencies)} :
         IF sorted.raised
         THEN /\ graph_pc' = "raised"
              /\ graph_error' = Some(CircularDependencyError)
              /\ UNCHANGED execution_order
         ELSE /\ graph_pc' = "loop"
              /\ execution_order' = sorted.order
              /\ UNCHANGED graph_error
    /\ graph_results' = EmptyDict
    /\ completed' = {}
    /\ order_index' = 1
    /\ UNCHANGED <<graph_agents, graph_plan, graph_input, executions>>
    /\ UNCHANGED <<orch_vars, scen_vars, pure_vars>>

\* One turn of `for agent_id in execution_order` up to the await, or the
\* return after the last one.
ExecuteNextAgent ==
    /\ graph_pc = "loop"
    /\ IF order_index > Len(execution_order)
       THEN /\ graph_pc' = "returned"
            /\ UNCHANGED <<executions, graph_error>>
       ELSE LET agent_id == execution_order[order_index]
            IN  IF agent_id \notin graph_agents
                THEN /\ graph_pc' = "raised"
                     /\ graph_error' = Some(AgentNotFoundError(agent_id))
                     /\ UNCHANGED executions
                ELSE /\ graph_pc' = "awaiting"
                     /\ executions' = Append(executions,
                            [agent |-> agent_id,
                             input |-> AgentInput(graph_plan, graph_input, graph_results,
                                                  agent_id)])
                     /\ UNCHANGED graph_error
    /\ UNCHANGED <<graph_agents, graph_plan, graph_input, execution_order, order_index,
                   graph_results, completed>>
    /\ UNCHANGED <<orch_vars, scen_vars, pure_vars>>

\* agent.execute returns, or raises and the exception leaves _execute_graph.
AgentExecuteReturns ==
    /\ graph_pc = "awaiting"
    /\ LET agent_id == execution_order[order_index]
       IN  \/ /\ graph_results' = DictSet(graph_results, agent_id, AgentResult(agent_id))
              /\ completed' = completed \cup {agent_id}
              /\ order_index' = order_index + 1
              /\ graph_pc' = "loop"
              /\ UNCHANGED graph_error
           \/ /\ graph_pc' = "raised"
              /\ graph_error' = Some(AgentExecuteError(agent_id))
              /\ UNCHANGED <<graph_results, completed, order_index>>
    /\ UNCHANGED <<graph_agents, graph_plan, graph_input, execution_order, executions>>
    /\ UNCHANGED <<orch_vars, scen_vars, pure_vars>>

\* The two other agents: the one after and the one before in a cycle a, b, c.
NextAgentId(agent_id) ==
    CASE agent_id = "a" -> "b" [] agent_id = "b" -> "c" [] OTHER -> "a"

PreviousAgentId(agent_id) ==
    CASE agent_id = "a" -> "c" [] agent_id = "b" -> "a" [] OTHER -> "b"

\* The entry of an agent in `dependencies`: no entry, an empty list, itself,
\* one or both of the other agents, or one of them twice.
DependencyChoices(agent_id) ==
    { None, Some(<<>>), Some(<<agent_id>>),
      Some(<<NextAgentId(agent_id)>>), Some(<<PreviousAgentId(agent_id)>>),
      Some(<<NextAgentId(agent_id), PreviousAgentId(agent_id)>>),
      Some(<<NextAgentId(agent_id), NextAgentId(agent_id)>>) }

GraphDependencies ==
    { [agent_id \in {x \in GraphAgentIds : choice[x] # None} |-> choice[agent_id][1]] :
        choice \in { c \in [GraphAgentIds -> UNION {DependencyChoices(x) : x \in GraphAgentIds}] :
                       \A x \in GraphAgentIds : c[x] \in DependencyChoices(x) } }

\* Agent lists of up to MaxGraphAgents ids, repeated ids included.
GraphAgentLists ==
    UNION {[1..n -> GraphAgentIds] : n \in 0..MaxGraphAgents}

InitGraph ==
    /\ actions = _register_actions
    /\ InitOrchestrator
    /\ ScenarioIdle
    /\ score_call = NoScoreCall
    /\ critical_call = NoCriticalCall
    /\ essential_call = NoEssentialCall
    /\ graph_agents \in {GraphAgentIds, GraphAgentIds \ {"c"}}
    /\ graph_plan \in {[agents |-> list, dependencies |-> dependencies] :
                         list \in GraphAgentLists, dependencies \in GraphDependencies}
    /\ graph_input = [task |-> "review"]
    /\ execution_order = <<>>
    /\ order_index = 1
    /\ graph_results = EmptyDict
    /\ completed = {}
    /\ executions = <<>>
    /\ graph_error = None
    /\ graph_pc = "idle"

NextGraph ==
    \/ _execute_graph
    \/ ExecuteNextAgent
    \/ AgentExecuteReturns

SpecGraph ==
    InitGraph /\ [][NextGraph]_vars

----------------------------------------------------------------------------
(* Claims about execute_plan (checked under SpecPlan) *)

\* C1: fail-fast. If the action of step i returns an unsuccessful result (or
\* raises), it is the last action ever invoked by this execute_plan call,
\* execute_plan has raised at step i, and the raised message contains the
\* action's error message.
C1_FailFast ==
    \A k \in DOMAIN invoked :
        /\ \A j \in 1..(k - 1) : invoked[j].step < invoked[k].step
        /\ (invoked[k].done /\ ~invoked[k].success) =>
              /\ k = Len(invoked)
              /\ plan_pc = "raised"
              /\ step_index = invoked[k].step
              /\ result = Some([success |-> FALSE, data |-> result[1].data,
                                artifacts |-> EmptyDict, error |-> invoked[k].error])
              /\ Contains(plan_error[1], Format(invoked[k].error))

\* C1 witness: an invoked action failed while later steps remained in the plan.
C1_Witness ==
    /\ plan_pc = "raised"
    /\ invoked # <<>>
    /\ invoked[Len(invoked)].done
    /\ ~invoked[Len(invoked)].success
    /\ invoked[Len(invoked)].step < Len(plan)

\* C2: order invariant. While the execute operation of step i is running, the
\* history holds exactly one successful record for each of steps 1..i-1, in
\* plan order, and every dependency declared by step i's action is among the
\* recorded names.
C2_OrderInvariant ==
    plan_pc = "executing" =>
        LET history == context[1].history
        IN  /\ Len(history) = step_index - 1
            /\ \A k \in 1..(step_index - 1) :
                  history[k].action = plan[k] /\ history[k].success
            /\ \A dep \in Range(actions[plan[step_index]]) :
                  \E k \in 1..(step_index - 1) : history[k].action = dep

\* C2 witness: the third step, an action with two dependencies, is executing.
C2_Witness ==
    /\ plan_pc = "executing"
    /\ step_index = 3
    /\ Len(actions[plan[step_index]]) = 2

\* C3: when the registered action about to run has a declared dependency with
\* no successful history record, the step makes execute_plan raise an error
\* naming the first such dependency, and the action is not invoked.
C3_MissingDependency ==
    [][ ( /\ plan_pc = "step"
          /\ plan[step_index] \in DOMAIN actions
          /\ \E dep \in Range(actions[plan[step_index]]) :
                dep \notin SucceededActions(context[1]) )
        => ( /\ plan_pc' = "raised"
             /\ invoked' = invoked
             /\ \E dep \in Range(actions[plan[step_index]]) :
                  /\ dep \notin SucceededActions(context[1])
                  /\ Contains(plan_error'[1], MsgMissingDependency \o dep) ) ]_vars

\* C3 witness: implement failed on its second dependency, its first one met.
C3_Witness ==
    /\ plan_pc = "raised"
    /\ plan[step_index] = implement
    /\ implement \in DOMAIN actions
    /\ analyze \in SucceededActions(context[1])
    /\ plan_error = Some(PlanFailureMessage(implement,
            ActionResult_error_result(MsgMissingDependency \o plan_name, EmptyDict)))

----------------------------------------------------------------------------
(* Claims about execute_with_iterations (checked under SpecScenario, the
   termination claim under FairSpecScenario) *)

\* C5: execute_with_iterations with max_iterations = k never starts more
\* than k single-pass executions (none for a negative k), and it terminates.
C5_Termination ==
    /\ [](Passes <= (IF max_iterations < 0 THEN 0 ELSE max_iterations))
    /\ <>(scen_pc = "done")

\* C5 witness: a run that used up all of its MaxIterations iterations.
C5_Witness ==
    /\ scen_pc = "done"
    /\ max_iterations = MaxIterations
    /\ Len(iteration_results) = max_iterations

\* C6: an iteration that failed with a message classified critical is the
\* last iteration, and the loop has been left.
C6_CriticalStops ==
    \A k \in DOMAIN iteration_results :
        (~iteration_results[k].success /\ _is_critical_error(iteration_results[k].error))
        => (k = Len(iteration_results) /\ scen_pc \in {"summary", "done"})

\* C6 witness: iteration 1 of a longer run failed with "permission denied
\* writing file" and the run ended there.
C6_Witness ==
    /\ scen_pc = "done"
    /\ max_iterations > 1
    /\ Len(iteration_results) = 1
    /\ Contains(Format(iteration_results[1].error), MsgPermissionDenied)
    /\ _is_critical_error(iteration_results[1].error)

\* C7: when iteration n < max_iterations ends in a failure classified
\* non-critical, the loop goes on to iteration n + 1 and current_context is
\* what it was before iteration n (no step of an iteration changes it
\* except the end of a successful pass).
C7_NonCriticalContinues ==
    [][ /\ ( /\ scen_pc = "executing"
             /\ scen_pc' # "executing"
             /\ plan_pc = "raised"
             /\ ~_is_critical_error(PassResult.error)
             /\ iteration < max_iterations )
           => ( /\ scen_pc' = "loop"
                /\ iteration' = iteration + 1
                /\ current_context' = current_context )
        /\ ( /\ scen_pc \in {"loop", "executing"}
             /\ plan_pc # "returned" )
           => current_context' = current_context ]_vars

\* C7 witness: iteration 1 failed with "temporary network hiccup" and
\* iteration 2 is running with no current context.
C7_Witness ==
    /\ scen_pc = "executing"
    /\ iteration = 2
    /\ current_context = None
    /\ Contains(Format(iteration_results[1].error), MsgNetworkHiccup)

\* C8: the score of (P, N) is |P n N| / |P u N|, 1.0 when both are empty and
\* 0.0 when exactly one is; so it lies in [0,1], is 1.0 iff P = N and is 0.0
\* iff P and N are disjoint and not both empty.
C8_ScoreIsJaccard ==
    score_call.score # None =>
        LET p == score_call.previous
            n == score_call.new
            score == score_call.score[1]
        IN  /\ score.den > 0
            /\ (p = {} /\ n = {}) => ScoreEquals(score, ScoreOne)
            /\ (p = {}) # (n = {}) => ScoreEquals(score, ScoreZero)
            /\ (p # {} /\ n # {}) =>
                  ScoreEquals(score, [num |-> Cardinality(p \cap n),
                                      den |-> Cardinality(p \cup n)])
            /\ 0 <= score.num /\ score.num <= score.den
            /\ ScoreEquals(score, ScoreOne) <=> (p = n)
            /\ ScoreEquals(score, ScoreZero) <=> (p \cap n = {} /\ (p # {} \/ n # {}))

\* C9: when iterations 1 and 2 both succeed with the same change-signature
\* set, the score at iteration 2 is 1.0 and the loop stops at iteration 2.
C9_RepeatedSignaturesScoreOne ==
    ( /\ Len(iteration_results) = 2
      /\ iteration_results[1].success
      /\ iteration_results[2].success
      /\ pass_changes[1] = pass_changes[2] )
    => ( /\ ScoreEquals(convergence_score, ScoreOne)
         /\ scen_pc \in {"summary", "done"} )

\* C10: a run whose iterations all succeed, with identical change-signature
\* sets from iteration 2 onward, has at most 3 iterations.
C10_StopsByIterationThree ==
    ( /\ \A k \in DOMAIN iteration_results : iteration_results[k].success
      /\ \A k \in DOMAIN pass_changes : k >= 2 => pass_changes[k] = pass_changes[2] )
    => Len(iteration_results) <= 3

\* C10 witness: a run allowed 4 or more iterations ended after two
\* successful iterations with the same change signatures.
C10_Witness ==
    /\ scen_pc = "done"
    /\ max_iterations >= 4
    /\ Len(iteration_results) = 2
    /\ iteration_results[1].success
    /\ iteration_results[2].success
    /\ pass_changes[2] # {}

----------------------------------------------------------------------------
(* Claims about the loop's validation stop (checked under SpecScenario) *)

\* The context carries a validation-results collection.
C11_HasValidationResults(ctx) ==
    "validation_results" \in DOMAIN ctx.data

\* Every entry of the collection reports syntactically valid and readable.
C11_AllEntriesPass(ctx) ==
    \A k \in DOMAIN ctx.data["validation_results"] :
        /\ ctx.data["validation_results"][k].syntax_valid
        /\ ctx.data["validation_results"][k].file_readable

\* Once the loop has been left no iteration is recorded or started.
C11_NoLaterIteration ==
    scen_pc \in {"summary", "done"}
        => /\ scen_pc' \in {"summary", "done"}
           /\ iteration_results' = iteration_results
           /\ iteration' = iteration

\* C11 as stated: whenever a pass succeeds with a validation-results
\* collection all of whose entries report valid and readable, the loop is
\* left at that iteration and no later iteration runs. An empty collection
\* has no entry that reports otherwise, and the loop goes on after it.
C11_ValidationStopsLiteral ==
    [][ /\ ( /\ scen_pc = "executing"
             /\ plan_pc = "returned"
             /\ C11_HasValidationResults(context[1])
             /\ C11_AllEntriesPass(context[1]) )
           => ( scen_pc' = "summary" /\ iteration' = iteration )
        /\ C11_NoLaterIteration ]_vars

\* C11 amended: whenever a pass succeeds with a validation-results
\* collection that has at least one entry and all of whose entries report
\* valid and readable, the loop is left at that iteration, whatever the
\* convergence score, and no later iteration runs.
C11_ValidationStops ==
    [][ /\ ( /\ scen_pc = "executing"
             /\ plan_pc = "returned"
             /\ C11_HasValidationResults(context[1])
             /\ context[1].data["validation_results"] # <<>>
             /\ C11_AllEntriesPass(context[1]) )
           => ( scen_pc' = "summary" /\ iteration' = iteration )
        /\ C11_NoLaterIteration ]_vars

\* C11 witness: a run allowed MaxIterations iterations has left the loop
\* after a successful iteration 1 whose validation results, two entries,
\* all report valid and readable.
C11_Witness ==
    /\ scen_pc \in {"summary", "done"}
    /\ max_iterations = MaxIterations
    /\ Len(iteration_results) = 1
    /\ pass_result # None
    /\ pass_result[1].success
    /\ C11_HasValidationResults(pass_result[1].context)
    /\ Len(pass_result[1].context.data["validation_results"]) = 2
    /\ C11_AllEntriesPass(pass_result[1].context)

----------------------------------------------------------------------------
(* Claims about the error classifier (checked under SpecCritical) *)

\* The five words of the claim.
C12_Words ==
    { <<"a", "u", "t", "h", "e", "n", "t", "i", "c", "a", "t", "i", "o", "n">>,
      <<"a", "u", "t", "h", "o", "r", "i", "z", "a", "t", "i", "o", "n">>,
      <<"p", "e", "r", "m", "i", "s", "s", "i", "o", "n">>,
      <<"s", "e", "c", "u", "r", "i", "t", "y">>,
      <<"f", "a", "t", "a", "l">> }

\* Character c is the lower-case letter l in either case.
C12_SameLetter(c, l) ==
    c = l \/ (c \in DOMAIN LowerTable /\ LowerTable[c] = l)

\* The word occurs in the message at some position, letter case ignored.
C12_Mentions(message, word) ==
    \E k \in 0..(Len(message) - Len(word)) :
        \A j \in 1..Len(word) : C12_SameLetter(message[k + j], word[j])

\* C12: the classifier answers true exactly for a message that mentions
\* one of authentication, authorization, permission, security, fatal in any
\* letter case; an absent or empty message is never critical.
C12_ClassifierKeywords ==
    critical_call.critical # None =>
        /\ critical_call.critical[1] =
               ( /\ critical_call.error # None
                 /\ \E word \in C12_Words : C12_Mentions(critical_call.error[1], word) )
        /\ critical_call.error \in {None, Some(<<>>)} => critical_call.critical[1] = FALSE

\* C12 witness: "Error: PERMISSION denied" has been classified critical.
C12_Witness ==
    /\ critical_call.error =
           Some(<<"E", "r", "r", "o", "r", ":", " ", "P", "E", "R", "M", "I", "S", "S", "I",
                  "O", "N", " ", "d", "e", "n", "i", "e", "d">>)
    /\ critical_call.critical = Some(TRUE)

----------------------------------------------------------------------------
(* Claims about what execute_with_iterations returns (checked under
   SpecScenario) *)

\* C13: when execute_with_iterations has returned and no iteration
\* succeeded, the returned ScenarioResult is an error result: success is
\* false and it carries an error.
C13_NoSuccessIsError ==
    ( /\ scen_pc = "done"
      /\ \A k \in DOMAIN iteration_results : ~iteration_results[k].success )
    => ( /\ ~scenario_result[1].success
         /\ scenario_result[1].error # None )

\* Some iteration recorded so far succeeded.
C14_SomeSuccess ==
    \E k \in DOMAIN iteration_results : iteration_results[k].success

\* C14: current_context is always the context of the last successful pass
\* (a successful pass replaces it by the orchestrator's context, no other
\* step of the loop changes it); and when some iteration succeeded, the
\* value returned is a success result whose context is that context with
\* the artifact "iteration_summary.md" added to its artifacts, the summary
\* holding one entry per executed iteration, in order, with its status.
C14_ReturnsLastSuccess ==
    [][ /\ (scen_pc = "executing" /\ plan_pc = "returned")
           => current_context' = Some(context[1])
        /\ (scen_pc \in {"loop", "executing"} /\ plan_pc # "returned")
           => current_context' = current_context
        /\ (scen_pc = "summary" /\ C14_SomeSuccess)
           => /\ scenario_result' # None
              /\ scenario_result'[1].success
              /\ LET last == current_context[1]
                     returned == scenario_result'[1].context
                     summary == returned.artifacts["iteration_summary.md"]
                 IN  /\ returned.data = last.data
                     /\ returned.history = last.history
                     /\ DOMAIN returned.artifacts =
                            DOMAIN last.artifacts \cup {"iteration_summary.md"}
                     /\ \A name \in DOMAIN last.artifacts :
                            name # "iteration_summary.md"
                                => returned.artifacts[name] = last.artifacts[name]
                     /\ Len(summary.entries) = Len(pass_changes)
                     /\ \A k \in DOMAIN summary.entries :
                            /\ summary.entries[k].iteration = k
                            /\ summary.entries[k].success = iteration_results[k].success ]_vars

\* C14 witness: a run has returned after a successful iteration 1 and a
\* failed iteration 2, with the context of iteration 1 and a summary of two
\* entries.
C14_Witness ==
    /\ scen_pc = "done"
    /\ Len(iteration_results) >= 2
    /\ iteration_results[1].success
    /\ ~iteration_results[2].success
    /\ scenario_result[1].success
    /\ scenario_result[1].context.history # <<>>
    /\ Len(scenario_result[1].context.artifacts["iteration_summary.md"].entries)
           = Len(iteration_results)

----------------------------------------------------------------------------
(* Claims about the single-pass execute (checked under SpecScenario) *)

\* Every step of the plan was invoked and returned a successful result.
C15_EveryActionSucceeded ==
    \A i \in DOMAIN plan :
        \E k \in DOMAIN invoked :
            invoked[k].step = i /\ invoked[k].done /\ invoked[k].success

\* C15: each execute pass ends with a ScenarioResult (no error reaches the
\* caller); the result is successful and holds the orchestrator's context
\* iff every action of the plan succeeded; otherwise it is unsuccessful,
\* its message contains the error of the failing action's result, and its
\* context holds no data, no artifacts and no history.
C15_ExecuteNeverRaises ==
    /\ (scen_pc \in {"loop", "summary"} /\ iteration_results # <<>>) => pass_result # None
    /\ (scen_pc \in {"loop", "summary", "done"} /\ pass_result # None) =>
          LET r == pass_result[1]
          IN  /\ r.success = C15_EveryActionSucceeded
              /\ r.success => (r.context = context[1] /\ r.error = None)
              /\ ~r.success =>
                    /\ r.error # None
                    /\ Contains(r.error[1], Format(result[1].error))
                    /\ r.context.data = EmptyDict
                    /\ r.context.artifacts = EmptyDict
                    /\ r.context.history = <<>>

\* C15 witness: a pass has ended unsuccessfully after implement_changes
\* returned "Tool timed out", two actions having succeeded before it.
C15_Witness ==
    /\ scen_pc \in {"loop", "summary"}
    /\ pass_result # None
    /\ ~pass_result[1].success
    /\ Len(context[1].history) = 2
    /\ result[1].error = Some(MsgTimeout)
    /\ Contains(pass_result[1].error[1], MsgTimeout)

----------------------------------------------------------------------------
(* Claims about failures of execute_plan (checked under SpecPlan) *)

\* C16: when execute_plan has failed, the error delivered to the caller
\* has the context attached to it, and that context is the one holding the
\* merged data of the successful steps before the failing one.
C16_ErrorCarriesContext ==
    plan_pc = "raised" =>
        /\ "context" \in DOMAIN RaisedError
        /\ RaisedError["context"] = context[1]

\* C17: when the step to run names an action that is not registered,
\* execute_plan fails at that step with an error whose message has
\* "Unknown action: " followed by the name; no action is invoked for it,
\* every action invoked belongs to an earlier step, the steps before it are
\* the history of the context, which stays as merged, and nothing is
\* invoked after the failure.
C17_UnknownActionFails ==
    [][ /\ (plan_pc = "step" /\ plan[step_index] \notin DOMAIN actions)
           => /\ plan_pc' = "raised"
              /\ step_index' = step_index
              /\ Contains(plan_error'[1], MsgUnknownAction \o plan[step_index])
              /\ invoked' = invoked
              /\ \A k \in DOMAIN invoked : invoked[k].step < step_index
              /\ context' = context
              /\ Len(context[1].history) = step_index - 1
              /\ \A j \in DOMAIN context[1].history :
                    /\ context[1].history[j].action = plan[j]
                    /\ invoked[j].step = j
                    /\ invoked[j].done
        /\ plan_pc = "raised" => invoked' = invoked ]_vars

\* C17 witness: a plan failed at its third step, an unregistered name,
\* after its first two steps ran and were merged.
C17_Witness ==
    /\ plan_pc = "raised"
    /\ step_index = 3
    /\ plan[3] \notin DOMAIN actions
    /\ Contains(plan_error[1], MsgUnknownAction \o plan[3])
    /\ Len(invoked) = 2
    /\ Len(context[1].history) = 2

----------------------------------------------------------------------------
(* Claims about artifacts and history *)

\* The artifacts of a result hold every artifact of the result's context.
C18_Covers(r) ==
    \A name \in DOMAIN r.context.artifacts :
        /\ name \in DOMAIN r.artifacts
        /\ r.artifacts[name] = r.context.artifacts[name]

\* C18 (SpecScenario): the artifacts of every successful ScenarioResult,
\* of an execute pass or of execute_with_iterations, contain every artifact
\* held by the context the result returns.
C18_ArtifactsCoverContext ==
    /\ (scen_pc \in {"loop", "summary"} /\ pass_result # None /\ pass_result[1].success)
          => C18_Covers(pass_result[1])
    /\ (scenario_result # None /\ scenario_result[1].success)
          => C18_Covers(scenario_result[1])

\* C19 (SpecPlan): the history of the context holds one record per action
\* whose execute was run and has returned, in the order they ran, with that
\* action's name, success and error, the failing action included.
C19_HistoryRecordsEveryRun ==
    context # None =>
        LET ran == SelectSeq(invoked, LAMBDA v : v.done)
            history == context[1].history
        IN  /\ Len(history) = Len(ran)
            /\ \A k \in DOMAIN history :
                  /\ history[k].action = plan[ran[k].step]
                  /\ history[k].success = ran[k].success
                  /\ history[k].error = ran[k].error

----------------------------------------------------------------------------
(* Claims about exceptions of actions (checked under SpecPlan) *)

\* C21: when the execute of an action raises, the orchestrator's result
\* for it is unsuccessful and carries the text of the exception; the plan
\* fails as for any unsuccessful result (the RuntimeError quoting that
\* error), the action is the last one invoked, and the context holds no
\* record of it and is what the steps before it left.
C21_ExceptionBecomesResult ==
    \A k \in DOMAIN invoked :
        (invoked[k].done /\ invoked[k].raised) =>
            /\ k = Len(invoked)
            /\ plan_pc = "raised"
            /\ step_index = invoked[k].step
            /\ ~result[1].success
            /\ result[1].error # None
            /\ Contains(result[1].error[1], MsgDivisionByZero)
            /\ plan_error = Some(MsgActionQuote \o plan[step_index] \o MsgQuoteFailed
                                   \o result[1].error[1])
            /\ Len(context[1].history) = step_index - 1
            /\ \A j \in DOMAIN context[1].history : context[1].history[j].action = plan[j]

\* C21 witness: the second of three steps raised "division by zero" after
\* the first had merged its data.
C21_Witness ==
    /\ Len(plan) = 3
    /\ Len(invoked) = 2
    /\ invoked[2].done
    /\ invoked[2].raised
    /\ plan_pc = "raised"
    /\ "x" \in DOMAIN context[1].data

----------------------------------------------------------------------------
(* Claims about the essential-context extraction (checked under
   SpecEssential) *)

\* C22: the extraction has no key besides validation_results,
\* implementation_summary and goal; each is present iff validation_results,
\* implementation_results, goal is a key of the context data, the first and
\* the last with the value bound there; implementation_summary holds three
\* counts and nothing else, total_changes being the number of
\* implementation results and the sum of successful_changes and
\* failed_changes.
C22_EssentialContext ==
    essential_call.essential # None =>
        LET data == essential_call.context_data
            essential == essential_call.essential[1]
        IN  /\ DOMAIN essential \subseteq {"validation_results", "implementation_summary", "goal"}
            /\ ("validation_results" \in DOMAIN essential) = ("validation_results" \in DOMAIN data)
            /\ ("implementation_summary" \in DOMAIN essential)
                   = ("implementation_results" \in DOMAIN data)
            /\ ("goal" \in DOMAIN essential) = ("goal" \in DOMAIN data)
            /\ "validation_results" \in DOMAIN essential
                   => essential["validation_results"] = data["validation_results"]
            /\ "goal" \in DOMAIN essential => essential["goal"] = data["goal"]
            /\ "implementation_summary" \in DOMAIN essential =>
                  LET summary == essential["implementation_summary"]
                  IN  /\ DOMAIN summary = {"total_changes", "successful_changes", "failed_changes"}
                      /\ summary.total_changes \in Nat
                      /\ summary.successful_changes \in Nat
                      /\ summary.failed_changes \in Nat
                      /\ summary.total_changes = Len(data["implementation_results"])
                      /\ summary.total_changes
                             = summary.successful_changes + summary.failed_changes

\* C22 witness: context data with every source key, the forwarded results
\* of an earlier iteration, and two implementation results, one applied and
\* one that reports no "success", has been reduced.
C22_Witness ==
    /\ essential_call.essential # None
    /\ DOMAIN essential_call.context_data =
           {"validation_results", "implementation_results", "goal", "previous_results",
            "timestamp"}
    /\ essential_call.context_data["implementation_results"] =
           << [success |-> TRUE, file |-> fileA, change_type |-> edit],
              [file |-> fileB, change_type |-> edit] >>
    /\ essential_call.essential[1]["implementation_summary"].failed_changes = 1

----------------------------------------------------------------------------
(* Claims about the input of an iteration (checked under SpecScenario) *)

\* The keys the loop adds to the input of an iteration.
C23_AddedKeys ==
    {"previous_results", "iteration_number", "convergence_score", "previous_changes"}

\* C23: the input an iteration starts with binds every key of the caller's
\* input_data to the same value; it has the four added keys iff some
\* earlier iteration succeeded, and no other key; previous_results is then
\* the essential extraction of the data of the last successful context,
\* iteration_number the iteration, convergence_score the stored score and
\* previous_changes a list of the previous change signatures; neither the
\* input nor previous_results has an artifacts or history key.
C23_IterationInput ==
    [][ scen_pc = "loop" =>
          LET earlier_success == \E k \in DOMAIN iteration_results : iteration_results[k].success
              given == iteration_input'
          IN  /\ \A key \in DOMAIN input_data : key \in DOMAIN given /\ given[key] = input_data[key]
              /\ DOMAIN given = DOMAIN input_data \cup (IF earlier_success THEN C23_AddedKeys ELSE {})
              /\ earlier_success =>
                    /\ current_context # None
                    /\ given["previous_results"] = _extract_essential_context(current_context[1].data)
                    /\ given["iteration_number"] = iteration
                    /\ given["convergence_score"] = convergence_score
                    /\ Range(given["previous_changes"]) = previous_changes
                    /\ Len(given["previous_changes"]) = Cardinality(previous_changes)
                    /\ DOMAIN given["previous_results"] \cap {"artifacts", "history"} = {}
              /\ DOMAIN given \cap {"artifacts", "history"} = {} ]_vars

\* C23 witness: iteration 3 runs on an input with the four added keys after
\* iteration 1 succeeded and iteration 2 failed.
C23_Witness ==
    /\ scen_pc = "executing"
    /\ iteration = 3
    /\ iteration_results[1].success
    /\ ~iteration_results[2].success
    /\ C23_AddedKeys \subseteq DOMAIN iteration_input
    /\ iteration_input["iteration_number"] = 3
    /\ "implementation_summary" \in DOMAIN iteration_input["previous_results"]

----------------------------------------------------------------------------
(* Claims about the dicts of the callers *)

\* C24 (SpecScenario): from the call of execute_with_iterations on, no
\* step of any path changes the caller's input_data: it keeps its keys and
\* the values bound to them.
C24_InputDataUnchanged ==
    [][ scen_pc # "idle" => input_data' = input_data ]_vars

\* C24 witness: a run has returned after a successful iteration 1 and a
\* second iteration whose input had the added keys, and the dict its plan
\* ran on was stamped; the caller's input_data has none of those keys.
C24_Witness ==
    /\ scen_pc = "done"
    /\ Len(iteration_results) = 2
    /\ iteration_results[1].success
    /\ "previous_results" \in DOMAIN iteration_input
    /\ "timestamp" \in DOMAIN plan_initial_data
    /\ DOMAIN input_data = {"goal", "target_directory", "max_iterations"}

\* C28 (SpecPlan): when execute_plan was given a non-empty dict, that dict
\* of the caller holds, while the plan runs and after it has returned or
\* failed, the keys timestamp and correlation_id and every key of the data
\* of each merged action, bound as in the context.
C28_SeedsByReference ==
    (plan_pc # "idle" /\ plan_initial_data # EmptyDict) =>
        /\ {"timestamp", "correlation_id"} \subseteq DOMAIN plan_initial_data
        /\ \A k \in DOMAIN context[1].history :
              context[1].history[k].data_keys \subseteq DOMAIN plan_initial_data
        /\ \A key \in DOMAIN context[1].data :
              /\ key \in DOMAIN plan_initial_data
              /\ plan_initial_data[key] = context[1].data[key]

\* C28 witness: a plan given {y: 0, z: 0} failed at its second step after
\* the first merged x, and the caller's dict holds x and the two stamps.
C28_Witness ==
    /\ plan_pc = "raised"
    /\ Len(context[1].history) = 1
    /\ {"x", "y", "z", "timestamp", "correlation_id"} \subseteq DOMAIN plan_initial_data

----------------------------------------------------------------------------
(* Claims about what the convergence test makes of the loop (checked under
   SpecScenario) *)

\* C25: at most two of the recorded iterations succeeded, and an iteration
\* n >= 2 that succeeded is the last one recorded, the loop having been
\* left.
C25_AtMostTwoSuccesses ==
    LET successes == {k \in DOMAIN iteration_results : iteration_results[k].success}
    IN  /\ Cardinality(successes) <= 2
        /\ \A k \in successes :
              k >= 2 => (k = Len(iteration_results) /\ scen_pc \in {"summary", "done"})

\* C25 witness: a run allowed MaxIterations iterations has returned after
\* iteration 1 succeeded, iteration 2 failed and iteration 3 succeeded.
C25_Witness ==
    /\ scen_pc = "done"
    /\ max_iterations = MaxIterations
    /\ Len(iteration_results) = 3
    /\ iteration_results[1].success
    /\ ~iteration_results[2].success
    /\ iteration_results[3].success

\* C26: previous_changes is always empty and the stored convergence score
\* always 0.0; the previous_changes and convergence_score in the input of
\* an iteration are the empty list and 0.0.
C26_NothingAccumulates ==
    /\ previous_changes = {}
    /\ convergence_score.num = 0
    /\ "previous_changes" \in DOMAIN iteration_input
          => /\ iteration_input["previous_changes"] = <<>>
             /\ iteration_input["convergence_score"].num = 0

\* C26 witness: a second successful iteration with changes of its own has
\* ended, after a first one with changes, and its input carried
\* previous_changes.
C26_Witness ==
    /\ scen_pc \in {"summary", "done"}
    /\ Len(iteration_results) = 2
    /\ iteration_results[1].success
    /\ iteration_results[2].success
    /\ pass_changes[1] # {}
    /\ pass_changes[2] # {}
    /\ "previous_changes" \in DOMAIN iteration_input

----------------------------------------------------------------------------
(* Claims about the default registry (checked under SpecScenario) *)

----------------------------------------------------------------------------
(* Claims about a run without iterations (checked under SpecScenario) *)

\* C29: a call with max_iterations <= 0 returns without any execute pass
\* (no iteration recorded, no plan started, no action invoked) and its
\* result is unsuccessful, the error being the failure of the summary of
\* zero iterations, a division by zero.
C29_NoIterations ==
    (scen_pc \in {"loop", "executing", "summary", "done"} /\ max_iterations <= 0) =>
        /\ scen_pc \in {"summary", "done"}
        /\ iteration_results = <<>>
        /\ pass_result = None
        /\ context = None
        /\ invoked = <<>>
        /\ scen_pc = "done" =>
              /\ scenario_result # None
              /\ ~scenario_result[1].success
              /\ scenario_result[1].error # None
              /\ Contains(scenario_result[1].error[1], MsgDivisionByZero)

\* C29 witness: a call with max_iterations = -1 has returned.
C29_Witness ==
    /\ scen_pc = "done"
    /\ max_iterations = -1
    /\ scenario_result # None
    /\ ~scenario_result[1].success

----------------------------------------------------------------------------
(* Claims about AgentOrchestrator._execute_graph (checked under SpecGraph) *)

C30_Listed ==
    Range(graph_plan.agents)

C30_NoDuplicates ==
    /\ \A i, j \in DOMAIN graph_plan.agents :
         graph_plan.agents[i] = graph_plan.agents[j] => i = j
    /\ \A x \in DOMAIN graph_plan.dependencies :
         \A i, j \in DOMAIN graph_plan.dependencies[x] :
           graph_plan.dependencies[x][i] = graph_plan.dependencies[x][j] => i = j

\* The dependencies of a listed agent that are listed themselves.
C30_ListedDependencies(x) ==
    IF x \in DOMAIN graph_plan.dependencies
    THEN Range(graph_plan.dependencies[x]) \cap C30_Listed
    ELSE {}

\* A cycle of the restricted relation: a non-empty set of listed agents each
\* of which depends on a member of the set.
C30_HasCycle ==
    \E cycle \in SUBSET C30_Listed :
        /\ cycle # {}
        /\ \A x \in cycle : C30_ListedDependencies(x) \cap cycle # {}

C30_Refused ==
    /\ graph_pc = "raised"
    /\ graph_error = Some([type |-> "ValueError",
                           message |-> <<"Circular dependency detected in agent graph">>])

C30_ExecutedOnce(x) ==
    /\ Cardinality({k \in DOMAIN executions : executions[k].agent = x}) = 1
    /\ x \in completed

\* Every execution so far is of a listed agent not executed before, comes
\* after the executions of all its listed dependencies, and was given their
\* results and no others.
C30_ExecutedInOrder ==
    \A k \in DOMAIN executions :
        LET x == executions[k].agent
        IN  /\ x \in C30_Listed
            /\ \A j \in 1..(k - 1) : executions[j].agent # x
            /\ \A d \in C30_ListedDependencies(x) :
                 /\ \E j \in 1..(k - 1) : executions[j].agent = d
                 /\ d \in completed
            /\ IF x \in DOMAIN graph_plan.dependencies
               THEN executions[k].input =
                        [original_input |-> graph_input,
                         dependency_results |->
                             [d \in C30_ListedDependencies(x) |-> graph_results[d]]]
               ELSE executions[k].input = graph_input

C30_Ended ==
    graph_pc \in {"returned", "raised"}

====
